---- MODULE Spec2Model ----
(***************************************************************************)
(* Batch trend-collection pipeline of S-T-Project:                         *)
(*   scripts/batch_processor.py      BatchProcessor (task generation,      *)
(*                                   worker pool, bookkeeping, run loop)   *)
(*   src/api_clients/pytrends_client.py   PyTrendsClient (retry loop)      *)
(*   src/api_clients/valueserp_client.py  ValueSerpClient (retry loop)     *)
(*                                                                         *)
(* The specifications share the variables:                                 *)
(*   GenSpec     generate_batch_tasks applied to bounded configurations    *)
(*   RetrySpec   one call of a client's retry loop, attempt by attempt     *)
(*   ValSpec     validate_data applied to bounded frames and rules         *)
(*   Spec        run_batch_processing: batches, worker pool, bookkeeping   *)
(*   PersistSpec the same run with writes that can fail                    *)
(*   CancelSpec  the same run with a user interrupt                        *)
(*   SliceSpec   the slicing of the for loop, for longer task lists        *)
(*   MonitorSpec the monitoring cycles of scripts/trend_monitor.py         *)
(*                                                                         *)
(* A Python string is modelled as the sequence of its characters, so that  *)
(* str.replace and the f-string join of task_id are computed, not assumed. *)
(***************************************************************************)
EXTENDS Integers, Sequences, FiniteSets, TLC

VARIABLES
    config,          \* self.config: keywords, locations, timeframes, processing, validation
    pc,              \* position of the main thread
    all_tasks,       \* all_tasks of run_batch_processing / last generate_batch_tasks result
    prev_tasks,      \* result of the previous generate_batch_tasks call
    gen_calls,       \* number of generate_batch_tasks calls made
    rq,              \* one client request: the locals of the retry loop and what it did
    ret,             \* what the public client method handed to its caller
    processed_items, \* self.processed_items (set of task ids)
    failed_items,    \* self.failed_items (list of failure records)
    results,         \* self.results (list of accepted results)
    batch_i,         \* i of the for loop of run_batch_processing
    batch_tasks,     \* the slice handed to process_batch
    batch_results,   \* the local list `results` of process_batch
    fut,             \* future_to_task: per submitted task, the state of its future
    hist,            \* per task of all_tasks, what its fetch and its processing did
    saved,           \* the records written by save_results, in order
    sleeps,          \* number of inter-batch time.sleep(delay) calls made
    summary,         \* the report written by generate_summary_report
    batches,         \* the slices of all_tasks taken by the for loop so far, in order
    write_errors,    \* batch ids of the save_results calls whose write raised
    resume_from,     \* argument of run_batch_processing: the earlier run to resume
    disk,            \* whether writes to the output directory can fail
    val,             \* one validate_data call: its arguments and its verdict
    historical_data, \* TrendMonitor.historical_data: per keyword seen, its baseline
    alert_history,   \* TrendMonitor.alert_history (list of alert records)
    clock,           \* datetime.now(), in seconds
    cycle,           \* position of run_monitoring_cycle, and what it last computed
    first_obs        \* per keyword, the first value the monitor observed for it

genVars == <<config, all_tasks, prev_tasks, gen_calls>>
retryVars == <<rq, ret>>
runVars == <<processed_items, failed_items, results, batch_i, batch_tasks,
             batch_results, fut, hist, saved, sleeps, summary, batches,
             write_errors>>
envVars == <<resume_from, disk>>
valVars == <<val>>
monVars == <<historical_data, alert_history, clock, cycle, first_obs>>
vars == <<pc, genVars, retryVars, runVars, envVars, valVars, monVars>>

\* Python's None where a string is expected, and where an object is expected
\* (an object x is then <<x>>).
None == "None"
Nothing == <<>>
Some(x) == <<x>>

(***************************************************************************)
(* Task generation                                                         *)
(***************************************************************************)

\* str.replace(old, new) for single-character old and new.
Replace(s, old, new) ==
    [k \in 1..Len(s) |-> IF s[k] = old THEN new ELSE s[k]]

\* f"{keyword}_{location}_{timeframe.replace(' ', '_')}"
TaskId(keyword, location, timeframe) ==
    keyword \o <<"_">> \o location \o <<"_">> \o Replace(timeframe, " ", "_")

\* the task dictionary built in the innermost loop body
MakeTask(keyword, location, timeframe) ==
    [keyword |-> keyword, location |-> location, timeframe |-> timeframe,
     task_id |-> TaskId(keyword, location, timeframe)]

RECURSIVE TimeframeLoop(_, _, _, _, _)
\* for timeframe in self.config['timeframes']: tasks.append(task)
TimeframeLoop(tasks, keyword, location, timeframes, c) ==
    IF c > Len(timeframes) THEN tasks
    ELSE TimeframeLoop(Append(tasks, MakeTask(keyword, location, timeframes[c])),
                       keyword, location, timeframes, c + 1)

RECURSIVE LocationLoop(_, _, _, _, _)
\* for location in self.config['locations']: ...
LocationLoop(tasks, keyword, locations, timeframes, b) ==
    IF b > Len(locations) THEN tasks
    ELSE LocationLoop(TimeframeLoop(tasks, keyword, locations[b], timeframes, 1),
                      keyword, locations, timeframes, b + 1)

RECURSIVE KeywordLoop(_, _, _, _, _)
\* for keyword in self.config['keywords']: ...
KeywordLoop(tasks, keywords, locations, timeframes, a) ==
    IF a > Len(keywords) THEN tasks
    ELSE KeywordLoop(LocationLoop(tasks, keywords[a], locations, timeframes, 1),
                     keywords, locations, timeframes, a + 1)

\* (variant: the location loop outside the keyword loop)
generate_location_major(cfg) ==
    LET swapped == KeywordLoop(<<>>, cfg.locations, cfg.keywords, cfg.timeframes, 1)
    IN  [k \in 1..Len(swapped) |->
            MakeTask(swapped[k].location, swapped[k].keyword, swapped[k].timeframe)]

\* BatchProcessor.generate_batch_tasks
generate_batch_tasks(cfg) ==
    KeywordLoop(<<>>, cfg.keywords, cfg.locations, cfg.timeframes, 1)

(***************************************************************************)
(* Retry loops of the two clients                                          *)
(***************************************************************************)

\* What one call of the wrapped operation can do.
\* pytrends: a non-empty frame, an empty frame, or an exception.
PyReturns == {"data", "empty"}
PyRaises == {"transient", "rate_limited", "fatal"}
PyOutcomes == PyReturns \cup PyRaises
\* requests: a JSON body, a JSON body with an 'error' field, a RequestException.
VsOutcomes == {"ok", "api_error", "transport", "other"}

RECURSIVE Pow(_, _)
\* backoff_factor ** attempt
Pow(b, n) == IF n = 0 THEN 1 ELSE b * Pow(b, n - 1)

\* The locals of a retry loop before its first iteration.
NewRequest(client, retries, backoff_factor) ==
    [client |-> client, retries |-> retries, backoff_factor |-> backoff_factor,
     attempt |-> 0, status |-> "running", value |-> None, last_exception |-> None,
     exc |-> None, calls |-> 0, pauses |-> 0, slept |-> <<>>, log |-> <<>>]

\* (variant: gives up one attempt early)
OnRetryableOneShort(r, o) ==
    IF r.attempt + 1 < r.retries
    THEN [r EXCEPT !.last_exception = o,
                   !.slept = Append(@, Pow(r.backoff_factor, r.attempt)),
                   !.attempt = @ + 1]
    ELSE [r EXCEPT !.last_exception = o, !.exc = o, !.status = "raised"]

\* (variant: the backoff grows linearly, backoff_factor * attempt)
OnRetryableLinear(r, o) ==
    IF r.attempt < r.retries
    THEN [r EXCEPT !.last_exception = o,
                   !.slept = Append(@, r.backoff_factor * r.attempt),
                   !.attempt = @ + 1]
    ELSE [r EXCEPT !.last_exception = o, !.exc = o, !.status = "raised"]

\* except-branch shared by both loops: remember the exception, then back off and
\* go round again, or raise it when this was the last attempt.
OnRetryable(r, o) ==
    IF r.attempt < r.retries
    THEN [r EXCEPT !.last_exception = o,
                   !.slept = Append(@, Pow(r.backoff_factor, r.attempt)),
                   !.attempt = @ + 1]
    ELSE [r EXCEPT !.last_exception = o, !.exc = o, !.status = "raised"]

\* (variant: a fatal error is raised at once, without a retry)
PyRetryIterationFailFast(r, o) ==
    LET called == [r EXCEPT !.calls = @ + 1, !.log = Append(@, o)]
    IN  IF o \in PyReturns
        THEN [called EXCEPT !.pauses = @ + 1, !.status = "returned", !.value = o]
        ELSE IF o = "fatal"
        THEN [called EXCEPT !.last_exception = o, !.exc = o, !.status = "raised"]
        ELSE OnRetryable(called, o)

\* (variant: an empty frame is treated as a failed attempt)
PyRetryIterationEmptyFails(r, o) ==
    LET called == [r EXCEPT !.calls = @ + 1, !.log = Append(@, o)]
    IN  IF o = "data"
        THEN [called EXCEPT !.pauses = @ + 1, !.status = "returned", !.value = o]
        ELSE OnRetryable(called, o)

\* (variant: the courtesy pause is made after a failed call as well)
PyRetryIterationPauseAlways(r, o) ==
    LET called == [r EXCEPT !.calls = @ + 1, !.log = Append(@, o),
                            !.pauses = @ + 1]
    IN  IF o \in PyReturns
        THEN [called EXCEPT !.status = "returned", !.value = o]
        ELSE OnRetryable(called, o)

\* One iteration of PyTrendsClient._retry_request, the operation doing o.
PyRetryIteration(r, o) ==
    LET called == [r EXCEPT !.calls = @ + 1, !.log = Append(@, o)]
    IN  IF o \in PyReturns
        THEN [called EXCEPT !.pauses = @ + 1, !.status = "returned", !.value = o]
        ELSE OnRetryable(called, o)

\* (variant: an 'error' body is retried like a transport failure)
VsRetryIterationRetryAll(r, o) ==
    LET called == [r EXCEPT !.calls = @ + 1, !.log = Append(@, o)]
    IN  CASE o = "ok" -> [called EXCEPT !.status = "returned", !.value = o]
          [] OTHER -> OnRetryable(called, o)

\* One iteration of ValueSerpClient._make_request, the HTTP call doing o.
VsRetryIteration(r, o) ==
    LET called == [r EXCEPT !.calls = @ + 1, !.log = Append(@, o)]
    IN  CASE o = "ok" -> [called EXCEPT !.status = "returned", !.value = o]
          [] o = "api_error" -> [called EXCEPT !.status = "raised", !.exc = "API Error"]
          [] o = "other" -> [called EXCEPT !.status = "raised", !.exc = "Exception"]
          [] OTHER -> OnRetryable(called, o)

RetryIteration(r, o) ==
    IF r.client = "pytrends" THEN PyRetryIteration(r, o) ELSE VsRetryIteration(r, o)

\* PyTrendsClient.get_interest_over_time, given the finished retry loop:
\* a non-empty frame is returned, an empty one and any exception become None.
get_interest_over_time(r) ==
    IF r.status = "returned" /\ r.value # None /\ r.value # "empty"
    THEN r.value
    ELSE None

\* ValueSerpClient.search, given the finished retry loop: the response, or None
\* for any exception.
search(r) ==
    IF r.status = "returned" THEN r.value ELSE None

ClientReturn(r) ==
    IF r.client = "pytrends" THEN get_interest_over_time(r) ELSE search(r)

\* The exception that leaves PyTrendsClient.get_interest_over_time (None: it
\* returns): its `except Exception` catches whatever the retry loop raised.
get_interest_over_time_raises(r) == None

\* a search that lets the exception of _make_request through to its caller
search_reraises(r) == IF r.status = "raised" THEN r.exc ELSE None

\* The exception that leaves ValueSerpClient.search (None: it returns): its
\* `except Exception` catches whatever _make_request raised.
search_raises(r) == None

ClientRaises(r) ==
    IF r.client = "pytrends" THEN get_interest_over_time_raises(r)
    ELSE search_raises(r)

\* what the caller of the public method gets: <<value>> returned, or
\* <<"raise", exception>>
ClientResult(r) ==
    IF ClientRaises(r) # None THEN <<"raise", ClientRaises(r)>>
    ELSE Some(ClientReturn(r))

RECURSIVE RunRetry(_, _)
\* The whole retry loop, the operation doing script[1], script[2], ... in turn.
RunRetry(r, script) ==
    IF r.status # "running" \/ r.calls >= Len(script) THEN r
    ELSE RunRetry(RetryIteration(r, script[r.calls + 1]), script)

(***************************************************************************)
(* Data validation                                                         *)
(***************************************************************************)

\* A processed DataFrame with one value column: the sequence of its cells, each
\* <<v>> for the number v or <<>> for a missing value (NaN).
Null == <<>>
Cell(v) == <<v>>

Rows(n, v) == [k \in 1..n |-> v]

\* data.isnull().sum().sum()
NullCount(data) == Cardinality({k \in DOMAIN data : data[k] = Null})

\* data[column].dropna()
DropNa(data) == {data[k][1] : k \in {j \in DOMAIN data : data[j] # Null}}

\* len(data.columns)
NumColumns == 1

\* validate_data rejecting a frame whose missing ratio equals the maximum
validate_data_at_limit(data, v) ==
    IF Len(data) < v.min_data_points THEN FALSE
    ELSE IF NullCount(data) * v.max_missing_den
              >= v.max_missing_num * (Len(data) * NumColumns) THEN FALSE
    ELSE IF v.validate_trends
            /\ \E x \in DropNa(data) : x > 100 \/ x < 0 THEN FALSE
    ELSE TRUE

\* BatchProcessor.validate_data; max_missing_values is the ratio
\* max_missing_num / max_missing_den.
validate_data(data, v) ==
    IF Len(data) < v.min_data_points THEN FALSE
    ELSE IF NullCount(data) * v.max_missing_den
              > v.max_missing_num * (Len(data) * NumColumns) THEN FALSE
    ELSE IF v.validate_trends
            /\ \E x \in DropNa(data) : x > 100 \/ x < 0 THEN FALSE
    ELSE TRUE

\* get_default_config()['validation']
DefaultMinDataPoints == 10
DefaultMaxMissingNum == 1
DefaultMaxMissingDen == 5
DefaultValidation ==
    [min_data_points |-> DefaultMinDataPoints,
     max_missing_num |-> DefaultMaxMissingNum,
     max_missing_den |-> DefaultMaxMissingDen,
     validate_trends |-> TRUE]

(***************************************************************************)
(* One task in a worker thread                                             *)
(***************************************************************************)

\* PyTrendsClient() as BatchProcessor.__init__ builds it
DefaultRetries == 3
DefaultBackoff == 2

\* An operation that raises e on its first k calls and does o afterwards.
ScriptOf(k, e, o) == [j \in 1..(DefaultRetries + 1) |-> IF j <= k THEN e ELSE o]

\* What self.data_processor.process_trends_data(data) can do.  TrendsDataProcessor
\* defines no such method, so with the class as it stands the call raises
\* AttributeError; a processor that has the method returns some frame or raises.
ProcessedFrames ==
    { Rows(7, Cell(50)),                          \* too few rows
      Rows(7, Cell(50)) \o Rows(3, Null),         \* 30% missing
      Rows(9, Cell(50)) \o <<Cell(101)>>,         \* a value above 100
      Rows(8, Cell(50)) \o Rows(2, Null) }        \* 20% missing, in range
ProcessorErrors == {"AttributeError"}
ProcessorOutcomes ==
    [raises : {TRUE}, error : ProcessorErrors, frame : {<<>>}]
    \cup [raises : {FALSE}, error : {None}, frame : ProcessedFrames]

\* (variant: the result is built without calling validate_data)
process_single_task_unvalidated(task, script, proc, validation) ==
    LET r == RunRetry(NewRequest("pytrends", DefaultRetries, DefaultBackoff), script)
        data == get_interest_over_time(r)
        fetch == IF r.status = "raised" THEN "raised" ELSE r.value
    IN  IF data = None
        THEN [result |-> Nothing, failure |-> Nothing,
              seen |-> [fetch |-> fetch, proc |-> Nothing]]
        ELSE IF proc.raises
        THEN [result |-> Nothing,
              failure |-> Some([task_id |-> task.task_id, error |-> proc.error]),
              seen |-> [fetch |-> fetch, proc |-> Some(proc)]]
        ELSE [result |-> Some([task_id |-> task.task_id, keyword |-> task.keyword,
                               location |-> task.location,
                               timeframe |-> task.timeframe,
                               data_points |-> Len(proc.frame)]),
              failure |-> Nothing,
              seen |-> [fetch |-> fetch, proc |-> Some(proc)]]

\* (variant: the except branch returns None without appending a record)
process_single_task_swallow(task, script, proc, validation) ==
    LET r == RunRetry(NewRequest("pytrends", DefaultRetries, DefaultBackoff), script)
        data == get_interest_over_time(r)
        fetch == IF r.status = "raised" THEN "raised" ELSE r.value
    IN  IF data = None
        THEN [result |-> Nothing, failure |-> Nothing,
              seen |-> [fetch |-> fetch, proc |-> Nothing]]
        ELSE IF proc.raises \/ ~validate_data(proc.frame, validation)
        THEN [result |-> Nothing, failure |-> Nothing,
              seen |-> [fetch |-> fetch, proc |-> Some(proc)]]
        ELSE [result |-> Some([task_id |-> task.task_id, keyword |-> task.keyword,
                               location |-> task.location,
                               timeframe |-> task.timeframe,
                               data_points |-> Len(proc.frame)]),
              failure |-> Nothing,
              seen |-> [fetch |-> fetch, proc |-> Some(proc)]]

\* BatchProcessor.process_single_task for one task: `script` is what the upstream
\* operation does call by call, `proc` what the data processor does.  Yields the
\* returned value, the record appended to self.failed_items (Nothing: none is
\* appended) and, as history, what the task has seen: how the fetch ended and
\* what the processor did, if it was called.
process_single_task(task, script, proc, validation) ==
    LET r == RunRetry(NewRequest("pytrends", DefaultRetries, DefaultBackoff), script)
        data == get_interest_over_time(r)
        fetch == IF r.status = "raised" THEN "raised" ELSE r.value
    IN  IF data = None
        THEN [result |-> Nothing, failure |-> Nothing,
              seen |-> [fetch |-> fetch, proc |-> Nothing]]
        ELSE IF proc.raises
        THEN [result |-> Nothing,
              failure |-> Some([task_id |-> task.task_id, error |-> proc.error]),
              seen |-> [fetch |-> fetch, proc |-> Some(proc)]]
        ELSE IF ~validate_data(proc.frame, validation)
        THEN [result |-> Nothing, failure |-> Nothing,
              seen |-> [fetch |-> fetch, proc |-> Some(proc)]]
        ELSE [result |-> Some([task_id |-> task.task_id, keyword |-> task.keyword,
                               location |-> task.location,
                               timeframe |-> task.timeframe,
                               data_points |-> Len(proc.frame)]),
              failure |-> Nothing,
              seen |-> [fetch |-> fetch, proc |-> Some(proc)]]

(***************************************************************************)
(* Configurations                                                          *)
(***************************************************************************)

Min(a, b) == IF a <= b THEN a ELSE b

\* all sequences over pool of length at most n
Lists(pool, n) == UNION {[1..k -> pool] : k \in 0..n}

DefaultProcessing == [batch_size |-> 5, max_workers |-> 4]

\* inputs of the task generator: lists over strings with '_' and ' ' in them
GenMaxLen == 2
GenKeywords == { <<"a">>, <<"a", "_", "b">> }
GenLocations == { <<"c">>, <<"b", "_", "c">> }
GenTimeframes == { <<"1", " ", "m">>, <<"1", "_", "m">> }
GenConfigs ==
    [keywords : Lists(GenKeywords, GenMaxLen),
     locations : Lists(GenLocations, GenMaxLen),
     timeframes : Lists(GenTimeframes, GenMaxLen),
     processing : {DefaultProcessing},
     validation : {DefaultValidation}]

\* configurations of a run: the first n keywords of a list, one location, one
\* timeframe, and the worker pool and batch sizes
MaxKeywords == 3
MaxBatchSize == 2
MaxWorkers == 2
RunKeywords == [k \in 1..MaxKeywords |-> <<"k", "w">> \o Rows(k, "x")]
RunConfigs ==
    [keywords : {SubSeq(RunKeywords, 1, n) : n \in 0..MaxKeywords},
     locations : { << <<"U", "S">> >> },
     timeframes : { << <<"1", " ", "m">> >> },
     processing : [batch_size : 1..MaxBatchSize, max_workers : 1..MaxWorkers],
     validation : {DefaultValidation}]

GenIdle == prev_tasks = <<>> /\ gen_calls = 0
RetryIdle == rq = [NewRequest("none", 0, 1) EXCEPT !.status = "idle"] /\ ret = Nothing
RunIdle ==
    /\ processed_items = {}
    /\ failed_items = <<>>
    /\ results = <<>>
    /\ batch_i = 0
    /\ batch_tasks = <<>>
    /\ batch_results = <<>>
    /\ fut = <<>>
    /\ hist = <<>>
    /\ saved = <<>>
    /\ sleeps = 0
    /\ summary = Nothing
    /\ batches = <<>>
    /\ write_errors = <<>>
EnvIdle == resume_from = Nothing /\ disk = "ok"
ValIdle == val = [data |-> <<>>, rules |-> DefaultValidation, verdict |-> Nothing]
MonIdle ==
    /\ historical_data = <<>>
    /\ alert_history = <<>>
    /\ clock = 0
    /\ cycle = [geo |-> 0, todo |-> <<>>, last |-> Nothing]
    /\ first_obs = <<>>

(***************************************************************************)
(* GenSpec: generate_batch_tasks called twice on one configuration         *)
(***************************************************************************)

GenInit ==
    /\ pc = "gen"
    /\ config \in GenConfigs
    /\ all_tasks = <<>>
    /\ GenIdle /\ RetryIdle /\ RunIdle /\ EnvIdle /\ ValIdle /\ MonIdle

GenCall ==
    /\ pc = "gen"
    /\ gen_calls < 2
    /\ all_tasks' = generate_batch_tasks(config)
    /\ prev_tasks' = all_tasks
    /\ gen_calls' = gen_calls + 1
    /\ UNCHANGED <<pc, config, retryVars, runVars, envVars, valVars, monVars>>

GenNext == GenCall

GenSpec == GenInit /\ [][GenNext]_vars

(***************************************************************************)
(* RetrySpec: one request through a client's retry loop                    *)
(***************************************************************************)

MaxRetries == 3
BackoffFactors == {1, 2, 3}

RetryInit ==
    /\ pc = "request"
    /\ \E client \in {"pytrends", "valueserp"}, retries \in 0..MaxRetries,
          b \in BackoffFactors :
            rq = NewRequest(client, retries, b)
    /\ ret = Nothing
    /\ config = [keywords |-> <<>>, locations |-> <<>>, timeframes |-> <<>>,
                 processing |-> DefaultProcessing, validation |-> DefaultValidation]
    /\ all_tasks = <<>>
    /\ GenIdle /\ RunIdle /\ EnvIdle /\ ValIdle /\ MonIdle

\* one iteration of `for attempt in range(self.retries + 1)`
RetryAttempt ==
    /\ pc = "request"
    /\ rq.status = "running"
    /\ \E o \in IF rq.client = "pytrends" THEN PyOutcomes ELSE VsOutcomes :
           rq' = RetryIteration(rq, o)
    /\ UNCHANGED <<pc, ret, genVars, runVars, envVars, valVars, monVars>>

\* the public method's own try/except around the loop: what its caller gets
ClientFinish ==
    /\ pc = "request"
    /\ rq.status # "running"
    /\ ret' = ClientResult(rq)
    /\ pc' = "returned"
    /\ UNCHANGED <<rq, genVars, runVars, envVars, valVars, monVars>>

RetryNext == RetryAttempt \/ ClientFinish

RetrySpec == RetryInit /\ [][RetryNext]_vars

(***************************************************************************)
(* ValSpec: validate_data applied to bounded frames and validation rules   *)
(***************************************************************************)

\* frames of at most ValMaxRows cells (missing, below, at the ends of and above
\* the range 0..100), and one frame of 7 full rows
ValMaxRows == 4
ValCells == {Null, Cell(-1), Cell(0), Cell(100), Cell(101)}
ValFrames == Lists(ValCells, ValMaxRows) \cup {Rows(7, Cell(50))}
\* max_missing_values 0.2, 0.3 and 0.25 as <<numerator, denominator>>
ValRatios == {<<1, 5>>, <<3, 10>>, <<1, 4>>}
ValRules ==
    { [min_data_points |-> m, max_missing_num |-> q[1], max_missing_den |-> q[2],
       validate_trends |-> b] :
          m \in {1, ValMaxRows, DefaultMinDataPoints}, q \in ValRatios,
          b \in BOOLEAN }

ValInit ==
    /\ pc = "validate"
    /\ \E d \in ValFrames, v \in ValRules :
          val = [data |-> d, rules |-> v, verdict |-> Nothing]
    /\ config = [keywords |-> <<>>, locations |-> <<>>, timeframes |-> <<>>,
                 processing |-> DefaultProcessing, validation |-> DefaultValidation]
    /\ all_tasks = <<>>
    /\ GenIdle /\ RetryIdle /\ RunIdle /\ EnvIdle /\ MonIdle

\* self.validate_data(processed_data, task) with the rules of the configuration
Validate ==
    /\ pc = "validate"
    /\ val' = [val EXCEPT !.verdict = Some(validate_data(val.data, val.rules))]
    /\ pc' = "validated"
    /\ UNCHANGED <<genVars, retryVars, runVars, envVars, monVars>>

ValNext == Validate

ValSpec == ValInit /\ [][ValNext]_vars

(***************************************************************************)
(* Spec: run_batch_processing                                              *)
(***************************************************************************)

Init ==
    /\ pc = "idle"
    /\ config \in RunConfigs
    /\ all_tasks = <<>>
    /\ GenIdle /\ RetryIdle /\ RunIdle /\ EnvIdle /\ ValIdle /\ MonIdle

Range(f) == {f[k] : k \in DOMAIN f}
NotRun == [fetch |-> "-", proc |-> Nothing]
Running == {t \in DOMAIN fut : fut[t].state = "running"}

\* `if resume_from:` of run_batch_processing: its body is a comment and `pass`,
\* nothing is loaded and no task is taken out
ResumeFilter(tasks, resume) == tasks

\* total_batches of run_batch_processing
TotalBatches(n, batch_size) == (n + batch_size - 1) \div batch_size

\* a slice that leaves a short last batch out
BatchSliceFullOnly(tasks, i, batch_size) ==
    IF i + batch_size > Len(tasks) THEN <<>>
    ELSE SubSeq(tasks, i + 1, i + batch_size)

\* all_tasks[i:i + batch_size]
BatchSlice(tasks, i, batch_size) ==
    SubSeq(tasks, i + 1, Min(i + batch_size, Len(tasks)))

\* all_tasks = self.generate_batch_tasks(), then the resume_from branch
Generate ==
    /\ pc = "idle"
    /\ all_tasks' = ResumeFilter(generate_batch_tasks(config), resume_from)
    /\ batch_i' = 0
    /\ hist' = [t \in DOMAIN all_tasks' |-> NotRun]
    /\ pc' = "loop"
    /\ UNCHANGED <<config, prev_tasks, gen_calls, retryVars, processed_items,
                   failed_items, results, batch_tasks, batch_results, fut, saved,
                   sleeps, summary,
                   batches, write_errors, envVars, valVars, monVars>>

\* loop head with a batch left: batch_tasks = all_tasks[i:i + batch_size], then
\* process_batch submits every task of it to the pool
SubmitBatch ==
    /\ pc = "loop"
    /\ batch_i < Len(all_tasks)
    /\ batch_tasks' = BatchSlice(all_tasks, batch_i, config.processing.batch_size)
    /\ batches' = Append(batches, batch_tasks')
    /\ batch_results' = <<>>
    /\ fut' = [t \in DOMAIN batch_tasks' |-> [state |-> "pending", result |-> Nothing]]
    /\ pc' = "batch"
    /\ UNCHANGED <<config, all_tasks, prev_tasks, gen_calls, retryVars,
                   processed_items, failed_items, results, batch_i, hist, saved,
                   sleeps, summary, write_errors, envVars, valVars, monVars>>

\* positions of the main thread at which the pool threads run: inside the
\* as_completed loop, and inside the shutdown(wait=True) of the with block's
\* exit when an exception leaves the loop
PoolAlive == pc \in {"batch", "unwinding"}

\* a pool thread takes the oldest queued task; at most max_workers threads exist
WorkerStart(t) ==
    /\ PoolAlive
    /\ fut[t].state = "pending"
    /\ \A u \in DOMAIN fut : u < t => fut[u].state # "pending"
    /\ Cardinality(Running) < config.processing.max_workers
    /\ fut' = [fut EXCEPT ![t].state = "running"]
    /\ UNCHANGED <<pc, genVars, retryVars, processed_items, failed_items, results,
                   batch_i, batch_tasks, batch_results, hist, saved, sleeps, summary,
                   batches, write_errors, envVars, valVars, monVars>>

\* what process_single_task(task) can come to, over every upstream behaviour
\* (k failures with e, then o) and every behaviour of the data processor
TaskOutcomes(task) ==
    { process_single_task(task, ScriptOf(k, e, o), proc, config.validation) :
          k \in 0..(DefaultRetries + 1), e \in PyRaises, o \in PyReturns,
          proc \in ProcessorOutcomes }

\* process_single_task(task) runs to its end in its thread: the future holds the
\* returned value, and the except branch has appended to self.failed_items
WorkerFinish(t) ==
    /\ PoolAlive
    /\ fut[t].state = "running"
    /\ \E out \in TaskOutcomes(batch_tasks[t]) :
          /\ fut' = [fut EXCEPT ![t] = [state |-> "done", result |-> out.result]]
          /\ failed_items' = failed_items \o out.failure
          /\ hist' = [hist EXCEPT ![batch_i + t] = out.seen]
    /\ UNCHANGED <<pc, genVars, retryVars, processed_items, results, batch_i,
                   batch_tasks, batch_results, saved, sleeps, summary,
                   batches, write_errors, envVars, valVars, monVars>>

\* a collection loop that takes every finished task for processed
CollectAll(t) ==
    /\ pc = "batch"
    /\ fut[t].state = "done"
    /\ fut' = [fut EXCEPT ![t].state = "collected"]
    /\ batch_results' = batch_results \o fut[t].result
    /\ processed_items' = processed_items \cup {batch_tasks[t].task_id}
    /\ UNCHANGED <<pc, genVars, retryVars, failed_items, results, batch_i,
                   batch_tasks, hist, saved, sleeps, summary,
                   batches, write_errors, envVars, valVars, monVars>>

\* one round of `for future in as_completed(future_to_task)` in the main thread.
\* future.result() never raises here: process_single_task catches every
\* Exception itself, so the except branch of this loop is not taken.
Collect(t) ==
    /\ pc = "batch"
    /\ fut[t].state = "done"
    /\ fut' = [fut EXCEPT ![t].state = "collected"]
    /\ IF fut[t].result # Nothing
       THEN /\ batch_results' = batch_results \o fut[t].result
            /\ processed_items' = processed_items \cup {batch_tasks[t].task_id}
       ELSE UNCHANGED <<batch_results, processed_items>>
    /\ UNCHANGED <<pc, genVars, retryVars, failed_items, results, batch_i,
                   batch_tasks, hist, saved, sleeps, summary,
                   batches, write_errors, envVars, valVars, monVars>>

\* a process_batch whose caller goes straight on to the delay, with no save
ProcessBatchReturnUnsaved ==
    /\ pc = "batch"
    /\ \A t \in DOMAIN fut : fut[t].state = "collected"
    /\ pc' = "delay"
    /\ UNCHANGED <<genVars, retryVars, runVars, envVars, valVars, monVars>>

\* a process_batch that returns as soon as one future has been collected
ProcessBatchReturnEarly ==
    /\ pc = "batch"
    /\ \E t \in DOMAIN fut : fut[t].state = "collected"
    /\ pc' = "persist"
    /\ UNCHANGED <<genVars, retryVars, runVars, envVars, valVars, monVars>>

\* as_completed is exhausted and the with block has shut the pool down:
\* process_batch returns its results
ProcessBatchReturn ==
    /\ pc = "batch"
    /\ \A t \in DOMAIN fut : fut[t].state = "collected"
    /\ pc' = "persist"
    /\ UNCHANGED <<genVars, retryVars, runVars, envVars, valVars, monVars>>

\* an export record whose metadata covers the current batch only
ExportDataPerBatch(batch_id, res) ==
    LET ids == {batch_tasks[t].task_id : t \in DOMAIN batch_tasks}
        failed == SelectSeq(failed_items, LAMBDA f : f.task_id \in ids)
    IN  [batch_id |-> batch_id,
         total_results |-> Len(res),
         results |-> res,
         failed_items |-> failed,
         total_processed |-> Len(res),
         total_failed |-> Len(failed)]

\* the record save_results builds for export (include_metadata is on); the
\* wall-clock fields (processed_at, timestamp) are left out of every record
ExportData(batch_id, res) ==
    [batch_id |-> batch_id,
     total_results |-> Len(res),
     results |-> res,
     failed_items |-> failed_items,
     total_processed |-> Cardinality(processed_items),
     total_failed |-> Len(failed_items)]

\* whether a write to the output directory goes through
WriteOutcomes == IF disk = "ok" THEN {TRUE} ELSE BOOLEAN

\* batch_num of the loop round at i
BatchNum == (batch_i \div config.processing.batch_size) + 1

\* save_results(res, batch_id): the record is written, or the write raises and
\* the except branch of the format loop logs the error; either way it returns
save_results(res, batch_id, ok) ==
    [saved |-> IF ok THEN Append(saved, ExportData(batch_id, res)) ELSE saved,
     write_errors |-> IF ok THEN write_errors ELSE Append(write_errors, batch_id)]

\* a persist step that lets the write error of save_results end the run
PersistHalts ==
    /\ pc = "persist"
    /\ results' = results \o batch_results
    /\ IF batch_results # <<>>
       THEN \E ok \in WriteOutcomes :
               LET w == save_results(batch_results, BatchNum, ok)
               IN  /\ saved' = w.saved
                   /\ write_errors' = w.write_errors
                   /\ pc' = IF ok THEN "delay" ELSE "crashed"
       ELSE UNCHANGED <<saved, write_errors>> /\ pc' = "delay"
    /\ UNCHANGED <<genVars, retryVars, processed_items, failed_items, batch_i,
                   batch_tasks, batch_results, fut, hist, sleeps, summary,
                   batches, envVars, valVars, monVars>>

\* a persist step that calls save_results for every batch
PersistAlways ==
    /\ pc = "persist"
    /\ results' = results \o batch_results
    /\ \E ok \in WriteOutcomes :
           LET w == save_results(batch_results, BatchNum, ok)
           IN  saved' = w.saved /\ write_errors' = w.write_errors
    /\ pc' = "delay"
    /\ UNCHANGED <<genVars, retryVars, processed_items, failed_items, batch_i,
                   batch_tasks, batch_results, fut, hist, sleeps, summary,
                   batches, envVars, valVars, monVars>>

\* self.results.extend(batch_results); save_results(...) if batch_results
Persist ==
    /\ pc = "persist"
    /\ results' = results \o batch_results
    /\ IF batch_results # <<>>
       THEN \E ok \in WriteOutcomes :
               LET w == save_results(batch_results, BatchNum, ok)
               IN  saved' = w.saved /\ write_errors' = w.write_errors
       ELSE UNCHANGED <<saved, write_errors>>
    /\ pc' = "delay"
    /\ UNCHANGED <<genVars, retryVars, processed_items, failed_items, batch_i,
                   batch_tasks, batch_results, fut, hist, sleeps, summary,
                   batches, envVars, valVars, monVars>>

\* a loop that sleeps after the last batch as well
DelayAlways ==
    /\ pc = "delay"
    /\ sleeps' = sleeps + 1
    /\ batch_i' = batch_i + config.processing.batch_size
    /\ pc' = "loop"
    /\ UNCHANGED <<genVars, retryVars, processed_items, failed_items, results,
                   batch_tasks, batch_results, fut, hist, saved, summary,
                   batches, write_errors, envVars, valVars, monVars>>

\* time.sleep(delay) if another batch follows, then the next round of the loop
Delay ==
    /\ pc = "delay"
    /\ sleeps' = IF batch_i + config.processing.batch_size < Len(all_tasks)
                 THEN sleeps + 1 ELSE sleeps
    /\ batch_i' = batch_i + config.processing.batch_size
    /\ pc' = "loop"
    /\ UNCHANGED <<genVars, retryVars, processed_items, failed_items, results,
                   batch_tasks, batch_results, fut, hist, saved, summary,
                   batches, write_errors, envVars, valVars, monVars>>

\* BatchProcessor.generate_summary_report: the processing_summary, or the
\* ZeroDivisionError of its success_rate when nothing was processed and nothing
\* failed
generate_summary_report ==
    IF Cardinality(processed_items) + Len(failed_items) = 0
    THEN Nothing
    ELSE Some([total_tasks |-> Len(config.keywords) * Len(config.locations)
                               * Len(config.timeframes),
               successful_tasks |-> Cardinality(processed_items),
               failed_tasks |-> Len(failed_items),
               success_rate_num |-> Cardinality(processed_items) * 100,
               success_rate_den |-> Cardinality(processed_items)
                                    + Len(failed_items)])

\* batch_id of the final save_results call ("complete_<timestamp>")
CompleteId == 0

\* the loop is over: the final save_results if there are results, then the
\* summary report. The ZeroDivisionError of the report, and the error of
\* open(report_file, 'w'), which nothing catches, leave run_batch_processing.
Finalize ==
    /\ pc = "loop"
    /\ batch_i >= Len(all_tasks)
    /\ IF results # <<>>
       THEN \E ok \in WriteOutcomes :
               LET w == save_results(results, CompleteId, ok)
               IN  saved' = w.saved /\ write_errors' = w.write_errors
       ELSE UNCHANGED <<saved, write_errors>>
    /\ \E report_ok \in WriteOutcomes :
           /\ summary' = IF report_ok THEN generate_summary_report ELSE Nothing
           /\ pc' = IF summary' = Nothing THEN "crashed" ELSE "done"
    /\ UNCHANGED <<genVars, retryVars, processed_items, failed_items, results,
                   batch_i, batch_tasks, batch_results, fut, hist, sleeps,
                   batches, envVars, valVars, monVars>>

Next ==
    \/ Generate
    \/ SubmitBatch
    \/ \E t \in DOMAIN fut : WorkerStart(t)
    \/ \E t \in DOMAIN fut : WorkerFinish(t)
    \/ \E t \in DOMAIN fut : Collect(t)
    \/ ProcessBatchReturn
    \/ Persist
    \/ Delay
    \/ Finalize

Spec == Init /\ [][Next]_vars

(***************************************************************************)
(* PersistSpec: run_batch_processing with an output directory whose writes *)
(* can fail, one task per batch and one worker                             *)
(***************************************************************************)

PersistMaxKeywords == 2
PersistConfigs ==
    {c \in RunConfigs : /\ Len(c.keywords) <= PersistMaxKeywords
                        /\ c.processing = [batch_size |-> 1, max_workers |-> 1]}

PersistInit ==
    /\ pc = "idle"
    /\ config \in PersistConfigs
    /\ resume_from = Nothing
    /\ disk = "flaky"
    /\ all_tasks = <<>>
    /\ GenIdle /\ RetryIdle /\ RunIdle /\ ValIdle /\ MonIdle

PersistSpec == PersistInit /\ [][Next]_vars

(***************************************************************************)
(* CancelSpec: run_batch_processing with a user interrupt (SIGINT). The    *)
(* code installs no handler and tests no flag: Python raises               *)
(* KeyboardInterrupt in the main thread wherever it is.                    *)
(***************************************************************************)

CancelMaxKeywords == 2
CancelConfigs == {c \in RunConfigs : Len(c.keywords) <= CancelMaxKeywords}

CancelInit ==
    /\ pc = "idle"
    /\ config \in CancelConfigs
    /\ all_tasks = <<>>
    /\ GenIdle /\ RetryIdle /\ RunIdle /\ EnvIdle /\ ValIdle /\ MonIdle

\* KeyboardInterrupt in the main thread. No except clause of the run catches
\* it (they name Exception). Inside process_batch it leaves the as_completed
\* loop and the with block's exit waits for the pool; elsewhere it leaves
\* run_batch_processing at once.
Interrupt ==
    /\ pc \in {"idle", "loop", "batch", "persist", "delay"}
    /\ pc' = IF pc = "batch" THEN "unwinding" ELSE "aborted"
    /\ UNCHANGED <<genVars, retryVars, runVars, envVars, valVars, monVars>>

\* executor.shutdown(wait=True) returns once every submitted task has run;
\* the KeyboardInterrupt then leaves process_batch and run_batch_processing
Unwound ==
    /\ pc = "unwinding"
    /\ \A t \in DOMAIN fut : fut[t].state \in {"done", "collected"}
    /\ pc' = "aborted"
    /\ UNCHANGED <<genVars, retryVars, runVars, envVars, valVars, monVars>>

CancelNext == Next \/ Interrupt \/ Unwound

CancelSpec == CancelInit /\ [][CancelNext]_vars

(***************************************************************************)
(* SliceSpec: the for loop of run_batch_processing cutting all_tasks into  *)
(* batches, for larger task lists and every earlier run to resume from     *)
(***************************************************************************)

SliceMaxKeywords == 3
SliceMaxBatch == 4
SliceKeywords == [k \in 1..SliceMaxKeywords |-> <<"k", "w">> \o Rows(k, "x")]
SliceLocations == << <<"U", "S">>, <<"G", "B">> >>
SliceConfigs ==
    [keywords : {SubSeq(SliceKeywords, 1, n) : n \in 0..SliceMaxKeywords},
     locations : {SubSeq(SliceLocations, 1, n) : n \in 1..2},
     timeframes : { << <<"1", " ", "m">> >> },
     processing : [batch_size : 1..SliceMaxBatch,
                   max_workers : {DefaultProcessing.max_workers}],
     validation : {DefaultValidation}]

\* the processed set an earlier run left: the ids of its first m tasks
PriorRuns(cfg) ==
    LET tasks == generate_batch_tasks(cfg)
    IN  { {tasks[k].task_id : k \in 1..m} : m \in 1..Len(tasks) }

SliceInit ==
    /\ pc = "idle"
    /\ config \in SliceConfigs
    /\ resume_from \in {Nothing} \cup {Some(prior) : prior \in PriorRuns(config)}
    /\ disk = "ok"
    /\ all_tasks = <<>>
    /\ GenIdle /\ RetryIdle /\ RunIdle /\ ValIdle /\ MonIdle

\* one round of `for i in range(0, len(all_tasks), batch_size)`, as far as the
\* slicing goes: batch_tasks = all_tasks[i:i + batch_size], then the next i
Slice ==
    /\ pc = "loop"
    /\ batch_i < Len(all_tasks)
    /\ batch_tasks' = BatchSlice(all_tasks, batch_i, config.processing.batch_size)
    /\ batches' = Append(batches, batch_tasks')
    /\ batch_i' = batch_i + config.processing.batch_size
    /\ UNCHANGED <<pc, genVars, retryVars, processed_items, failed_items, results,
                   batch_results, fut, hist, saved, sleeps, summary, write_errors,
                   envVars, valVars, monVars>>

SliceNext == Generate \/ Slice

SliceSpec == SliceInit /\ [][SliceNext]_vars

(***************************************************************************)
(* Properties of a batch (Spec)                                            *)
(***************************************************************************)

\* positions of the records of self.failed_items that carry task id `id`
FailRecordsOf(id) == {k \in DOMAIN failed_items : failed_items[k].task_id = id}

\* what task t of all_tasks went through, from its history
FetchRaised(t) == hist[t].fetch = "raised"
FetchEmpty(t) == hist[t].fetch = "empty"
Raised(t) == hist[t].proc # Nothing /\ hist[t].proc[1].raises
Rejected(t) ==
    /\ hist[t].proc # Nothing
    /\ ~hist[t].proc[1].raises
    /\ ~validate_data(hist[t].proc[1].frame, config.validation)
Accepted(t) ==
    /\ hist[t].fetch = "data"
    /\ hist[t].proc # Nothing
    /\ ~hist[t].proc[1].raises
    /\ validate_data(hist[t].proc[1].frame, config.validation)

\* C1: once process_batch has returned, every task of the batch is either in
\* processed_items with no failure record, or not in it with exactly one
\* failure record.
C1_EveryTaskAccountedOnce ==
    pc = "persist" =>
        \A t \in DOMAIN batch_tasks :
            LET id == batch_tasks[t].task_id
            IN  \/ id \in processed_items /\ FailRecordsOf(id) = {}
                \/ id \notin processed_items /\ Cardinality(FailRecordsOf(id)) = 1

\* C2: a task whose processed data validate_data rejects has a record in
\* failed_items with its task id and the reason "validation_failed".
C2_RejectionRecorded ==
    \A t \in DOMAIN hist :
        Rejected(t) =>
            \E k \in DOMAIN failed_items :
                /\ failed_items[k].task_id = all_tasks[t].task_id
                /\ failed_items[k].error = "validation_failed"

\* C3: a task whose fetch raised after the client's last retry has a failure
\* record with its task id in failed_items.
C3_ExhaustedFetchRecorded ==
    \A t \in DOMAIN hist : FetchRaised(t) => FailRecordsOf(all_tasks[t].task_id) # {}

\* C4: every accepted result (in self.results or in the list process_batch
\* is building) and every id of processed_items belongs to a task whose fetch
\* gave non-empty data and whose processed data validate_data accepted.
C4_AcceptedOnlyIfValidated ==
    /\ \A rec \in Range(results) \cup Range(batch_results) :
           \E t \in DOMAIN all_tasks :
               all_tasks[t].task_id = rec.task_id /\ Accepted(t)
    /\ \A id \in processed_items :
           \E t \in DOMAIN all_tasks : all_tasks[t].task_id = id /\ Accepted(t)

\* a finished run that accepted one task and rejected the data of another
C4_Witness ==
    /\ pc = "done"
    /\ \E t, u \in DOMAIN all_tasks :
           /\ Accepted(t) /\ all_tasks[t].task_id \in processed_items
           /\ \E k \in DOMAIN results : results[k].task_id = all_tasks[t].task_id
           /\ Rejected(u)

\* C5: an exception raised while a worker processes a task leaves exactly one
\* failure record with that task's id and the exception's message; the batch
\* still returns with every future collected and every accepted task's
\* result in its list, and the run does not crash on it.
C5_WorkerExceptionRecorded ==
    /\ \A t \in DOMAIN hist :
           Raised(t) =>
               Cardinality({k \in DOMAIN failed_items :
                   failed_items[k] = [task_id |-> all_tasks[t].task_id,
                                      error |-> hist[t].proc[1].error]}) = 1
    /\ (pc = "persist" /\ \E u \in DOMAIN batch_tasks : Raised(batch_i + u)) =>
           \A t \in DOMAIN batch_tasks :
               /\ fut[t].state = "collected"
               /\ Accepted(batch_i + t) <=>
                      \E k \in DOMAIN batch_results :
                          batch_results[k].task_id = batch_tasks[t].task_id
    /\ pc = "crashed" => \A t \in DOMAIN hist : ~Raised(t)

\* a returned batch in which one task raised and another was accepted
C5_Witness ==
    /\ pc = "persist"
    /\ \E t, u \in DOMAIN batch_tasks :
           /\ Raised(batch_i + t)
           /\ FailRecordsOf(batch_tasks[t].task_id) # {}
           /\ Accepted(batch_i + u)
           /\ batch_tasks[u].task_id \in processed_items

(***************************************************************************)
(* Properties of the retry loops (RetrySpec)                               *)
(***************************************************************************)

\* the outcomes a client's loop retries, and those it returns
Retryable(client, o) ==
    IF client = "pytrends" THEN o \in PyRaises ELSE o = "transport"
Succeeds(client, o) ==
    IF client = "pytrends" THEN o \in PyReturns ELSE o = "ok"
Last(q) == q[Len(q)]
\* every call of the request named in `calls` failed with a retryable error
AllRetryable(r, calls) == \A k \in calls : Retryable(r.client, r.log[k])
AllFatal(r) == r.log # <<>> /\ \A k \in DOMAIN r.log : r.log[k] = "fatal"

\* C6: a request that returned made k failed calls, k <= retries, and then one
\* successful call whose value it returns (k + 1 calls in all); while it is
\* running it has made at most `retries` calls; a request whose every call
\* failed with a retryable error raises after exactly retries + 1 calls, and
\* raises the error of the last call.
C6_RetryBound ==
    /\ rq.status = "returned" =>
           /\ rq.log # <<>>
           /\ Succeeds(rq.client, Last(rq.log))
           /\ AllRetryable(rq, 1..(Len(rq.log) - 1))
           /\ rq.calls = (Len(rq.log) - 1) + 1
           /\ Len(rq.log) - 1 <= rq.retries
           /\ rq.value = Last(rq.log)
    /\ rq.status = "running" =>
           /\ rq.calls <= rq.retries
           /\ rq.calls = Len(rq.log)
           /\ AllRetryable(rq, DOMAIN rq.log)
    /\ (rq.status = "raised" /\ AllRetryable(rq, DOMAIN rq.log)) =>
           /\ rq.calls = rq.retries + 1
           /\ rq.calls = Len(rq.log)
           /\ rq.exc = Last(rq.log)

\* retries = 3: three failed calls, then the fourth returns
C6_Witness ==
    /\ rq.retries = 3
    /\ rq.status = "returned"
    /\ rq.calls = 4
    /\ AllRetryable(rq, 1..3)

C9_CartesianOrder ==
    gen_calls >= 1 =>
        LET K == config.keywords
            L == config.locations
            T == config.timeframes
        IN  /\ Len(all_tasks) = Len(K) * Len(L) * Len(T)
            /\ \A a \in DOMAIN K, b \in DOMAIN L, c \in DOMAIN T :
                   LET task == all_tasks[((a - 1) * Len(L) + (b - 1)) * Len(T) + c]
                   IN  /\ task.keyword = K[a]
                       /\ task.location = L[b]
                       /\ task.timeframe = T[c]
            /\ (K = <<>> \/ L = <<>> \/ T = <<>>) => all_tasks = <<>>
            /\ gen_calls = 2 => prev_tasks = all_tasks

\* two calls on two keywords, two locations and two timeframes, all distinct
C9_Witness ==
    /\ gen_calls = 2
    /\ Len(all_tasks) = 8
    /\ config.keywords[1] # config.keywords[2]
    /\ config.locations[1] # config.locations[2]
    /\ config.timeframes[1] # config.timeframes[2]

\* C10: two generated tasks that differ in keyword, location or timeframe have
\* different task ids.
C10_TaskIdInjective ==
    \A x, y \in DOMAIN all_tasks :
        (\/ all_tasks[x].keyword # all_tasks[y].keyword
         \/ all_tasks[x].location # all_tasks[y].location
         \/ all_tasks[x].timeframe # all_tasks[y].timeframe) =>
            all_tasks[x].task_id # all_tasks[y].task_id

(***************************************************************************)
(* Properties of the validator (ValSpec)                                   *)
(***************************************************************************)

\* the rules of the validator, each stated on the frame itself
Missing(d) == {k \in DOMAIN d : d[k] = Null}
EnoughRows(d, v) == Len(d) >= v.min_data_points
FewMissing(d, v) ==
    Cardinality(Missing(d)) * v.max_missing_den <= v.max_missing_num * Len(d)
InRange(d) == \A k \in DOMAIN d \ Missing(d) : d[k][1] >= 0 /\ d[k][1] <= 100

\* C11: validate_data accepts a frame exactly when it has at least
\* min_data_points rows, its share of missing cells is at most
\* max_missing_values, and (validate_trends on) every present value lies in
\* 0..100; so 1 missing cell in 4 is rejected at 0.2 and accepted at 0.3, and
\* 7 rows are rejected at a minimum of 10.
C11_ValidatorRules ==
    pc = "validated" =>
        LET d == val.data
            v == val.rules
        IN  /\ val.verdict = Some(/\ EnoughRows(d, v)
                                   /\ FewMissing(d, v)
                                   /\ (v.validate_trends => InRange(d)))
            /\ ( /\ Len(d) = 4 /\ Cardinality(Missing(d)) = 1 /\ InRange(d)
                 /\ v.min_data_points <= 4
                 => /\ <<v.max_missing_num, v.max_missing_den>> = <<1, 5>>
                       => val.verdict = Some(FALSE)
                    /\ <<v.max_missing_num, v.max_missing_den>> = <<3, 10>>
                       => val.verdict = Some(TRUE) )
            /\ (Len(d) = 7 /\ v.min_data_points = 10 => val.verdict = Some(FALSE))

\* a frame with 1 missing cell in 4 accepted at 0.3
C11_Witness ==
    /\ pc = "validated"
    /\ Len(val.data) = 4
    /\ Cardinality(Missing(val.data)) = 1
    /\ <<val.rules.max_missing_num, val.rules.max_missing_den>> = <<3, 10>>
    /\ val.verdict = Some(TRUE)

(***************************************************************************)
(* Properties of the batching (SliceSpec)                                  *)
(***************************************************************************)

RECURSIVE Concat(_)
Concat(seqs) == IF seqs = <<>> THEN <<>> ELSE Head(seqs) \o Concat(Tail(seqs))

\* the least c with c * b >= n
CeilDiv(n, b) == CHOOSE c \in 0..n : c * b >= n /\ (c = 0 \/ (c - 1) * b < n)

SliceLoopOver == pc = "loop" /\ batch_i >= Len(all_tasks)

\* C12: batch number b (from 1) holds the tasks at positions (b-1)*B+1 .. b*B
\* of the task sequence, cut off at its end; when the loop is over there are
\* ceil(N/B) batches, all but the last of B tasks, and joined in order they are
\* the task sequence; 6 tasks at B = 4 give batches of 4 and 2.
C12_BatchSlices ==
    pc = "loop" =>
        LET B == config.processing.batch_size
            N == Len(all_tasks)
        IN  /\ \A b \in DOMAIN batches :
                   batches[b] = [k \in 1..Min(B, N - (b - 1) * B) |->
                                    all_tasks[(b - 1) * B + k]]
            /\ SliceLoopOver =>
                   /\ Len(batches) = CeilDiv(N, B)
                   /\ Len(batches) = TotalBatches(N, B)
                   /\ \A b \in 1..(Len(batches) - 1) : Len(batches[b]) = B
                   /\ Concat(batches) = all_tasks
                   /\ (N = 6 /\ B = 4 =>
                          <<Len(batches[1]), Len(batches[2])>> = <<4, 2>>)

\* 6 tasks cut at batch size 4
C12_Witness ==
    /\ SliceLoopOver
    /\ Len(all_tasks) = 6
    /\ config.processing.batch_size = 4
    /\ Len(batches) = 2

\* C13: with a run to resume from, no task whose id is in that run's
\* processed set is put in a batch again; with 4 of 6 ids processed before,
\* exactly the other 2 tasks are executed.
C13_ResumeSkipsProcessed ==
    resume_from # Nothing =>
        /\ \A b \in DOMAIN batches : \A k \in DOMAIN batches[b] :
               batches[b][k].task_id \notin resume_from[1]
        /\ (SliceLoopOver /\ Len(generate_batch_tasks(config)) = 6
               /\ Cardinality(resume_from[1]) = 4
             => Len(Concat(batches)) = 2)

(***************************************************************************)
(* Properties of the end of a run (Spec)                                   *)
(***************************************************************************)

\* run_batch_processing has been left, by its return or by an exception
RunOver == pc \in {"done", "crashed"}

\* C14: at finalization no error is raised and the reported success_rate is
\* |processed_items| / (|processed_items| + |failed_items|), as a percentage,
\* and 0 when both counts are zero.
C14_SuccessRate ==
    RunOver =>
        /\ summary # Nothing
        /\ LET p == Cardinality(processed_items)
               f == Len(failed_items)
           IN  IF p + f = 0
               THEN summary[1].success_rate_num = 0
               ELSE summary[1].success_rate_num * (p + f)
                        = 100 * p * summary[1].success_rate_den

\* C15: whatever the tasks' outcomes, the run stops only in Done, with the
\* summary written.
C15_RunEndsDone ==
    pc \notin {"idle", "loop", "batch", "persist", "delay"} =>
        pc = "done" /\ summary # Nothing

(***************************************************************************)
(* Properties of persistence (PersistSpec, Spec)                           *)
(***************************************************************************)

\* the write of the record of batch number b raised
BatchWriteFailed(b) == \E k \in DOMAIN write_errors : write_errors[k] = b

BatchPersisted(b) ==
    \/ b < Len(batches)
    \/ b = Len(batches) /\ pc \in {"delay", "loop", "done", "crashed"}

\* positions in all_tasks of the tasks of batch number b
TasksOfBatch(b) ==
    {t \in DOMAIN all_tasks : ((t - 1) \div config.processing.batch_size) + 1 = b}

\* positions in saved of the records of batch number b
RecordsOf(b) == {k \in DOMAIN saved : saved[k].batch_id = b}

C18_CancelKeepsResults ==
    pc = "aborted" =>
        \A t \in DOMAIN fut :
            /\ fut[t].state \in {"done", "collected"}
            /\ fut[t].result # Nothing =>
                   batch_tasks[t].task_id \in processed_items

(***************************************************************************)
(* Properties of ValueSerpClient.search (RetrySpec)                        *)
(***************************************************************************)

\* search has handed its outcome to its caller
SearchOver == pc = "returned" /\ rq.client = "valueserp"

\* C19: when the HTTP call succeeds and the JSON body has an 'error' field,
\* search raises the exception 'API Error: <error>' to its caller.
C19_ApiErrorRaised ==
    (SearchOver /\ Last(rq.log) = "api_error") => ret = <<"raise", "API Error">>

\* C20: when the HTTP request raises, search returns None and lets no
\* exception through, for every number of retries; a transport failure is
\* tried retries + 1 times before that.
C20_TransportGivesNone ==
    (SearchOver /\ Last(rq.log) \in {"transport", "other"}) =>
        /\ rq.status = "raised"
        /\ ret = Some(None)
        /\ Last(rq.log) = "transport" =>
               /\ rq.calls = rq.retries + 1
               /\ AllRetryable(rq, DOMAIN rq.log)

\* every call of a search with the default 3 retries failed in transport
C20_Witness ==
    /\ SearchOver
    /\ rq.retries = DefaultRetries
    /\ rq.calls = DefaultRetries + 1
    /\ AllRetryable(rq, DOMAIN rq.log)
    /\ ret = Some(None)

(***************************************************************************)
(* Properties of the order of batches and of the pool (Spec)               *)
(***************************************************************************)

\* positions in all_tasks of the tasks a pool thread holds or has queued
InFlight == {batch_i + t : t \in {u \in DOMAIN fut :
                                      fut[u].state \in {"pending", "running"}}}

C22_OnlyCollectorMutates ==
    [][ (failed_items' # failed_items \/ processed_items' # processed_items)
            => \E t \in DOMAIN fut :
                   /\ fut[t].state = "done"
                   /\ t \in DOMAIN fut' /\ fut'[t].state = "collected" ]_vars

\* C23: process_batch has returned only when every submitted task has run
\* and been collected; at most max_workers tasks run at a time; a task that
\* is still running does not keep a later one from finishing.
C23_Barrier ==
    /\ Cardinality(Running) <= config.processing.max_workers
    /\ pc \in {"persist", "delay"} =>
           \A t \in DOMAIN fut :
               fut[t].state = "collected" /\ hist[batch_i + t] # NotRun

\* the first task of a batch still runs while the second has finished
C23_Witness ==
    /\ pc = "batch"
    /\ Len(fut) >= 2
    /\ fut[1].state = "running"
    /\ fut[2].state \in {"done", "collected"}

(***************************************************************************)
(* Properties of the sleeps of the retry loops (RetrySpec)                 *)
(***************************************************************************)

RECURSIVE SeqSum(_)
SeqSum(q) == IF q = <<>> THEN 0 ELSE Head(q) + SeqSum(Tail(q))

\* C24: the backoff sleeps of a request are 1, b, b*b, ... in this order (the
\* sleep after failed attempt i is backoff_factor^i), one after each failed
\* attempt but the last allowed one; at factor 2 they are 1, 2, 4, and three
\* failures then a success sleep 7 in backoff.
C24_BackoffSchedule ==
    rq.status # "idle" =>
        /\ \A k \in DOMAIN rq.slept :
               rq.slept[k] = IF k = 1 THEN 1 ELSE rq.slept[k - 1] * rq.backoff_factor
        /\ Len(rq.slept) = Cardinality({k \in DOMAIN rq.log :
                                          Retryable(rq.client, rq.log[k])})
                              - (IF rq.status = "raised"
                                    /\ Retryable(rq.client, Last(rq.log))
                                 THEN 1 ELSE 0)
        /\ Len(rq.slept) <= rq.retries
        /\ (rq.backoff_factor = 2 /\ Len(rq.slept) = 3) => rq.slept = <<1, 2, 4>>
        /\ (rq.backoff_factor = 2 /\ rq.status = "returned" /\ rq.calls = 4) =>
               SeqSum(rq.slept) = 7

\* three failures, then a success, at factor 2
C24_Witness ==
    /\ rq.retries = 3
    /\ rq.backoff_factor = 2
    /\ rq.status = "returned"
    /\ rq.calls = 4
    /\ rq.slept = <<1, 2, 4>>

\* C26: PyTrendsClient makes its courtesy pause once, in the call that
\* succeeds and before the value is returned, and not after a failed call.
C26_PauseOnSuccessOnly ==
    rq.client = "pytrends" =>
        /\ rq.pauses = Cardinality({k \in DOMAIN rq.log :
                                       Succeeds(rq.client, rq.log[k])})
        /\ rq.pauses = IF rq.status = "returned" THEN 1 ELSE 0

\* a request that failed twice and then succeeded has paused once
C26_Witness ==
    /\ rq.client = "pytrends"
    /\ rq.status = "returned"
    /\ rq.calls = 3
    /\ rq.pauses = 1

\* C29: _make_request goes round again only after a transport failure: an
\* 'error' body or any other exception ends it in that attempt with no backoff
\* sleep, also when retries remain; if it came first there was one HTTP call.
C29_OnlyTransportRetried ==
    (rq.client = "valueserp" /\ rq.log # <<>>) =>
        /\ \A k \in 1..(Len(rq.log) - 1) : rq.log[k] = "transport"
        /\ Last(rq.log) \in {"api_error", "other"} =>
               /\ rq.status = "raised"
               /\ rq.calls = Len(rq.log)
               /\ Len(rq.slept) = Len(rq.log) - 1
               /\ (Len(rq.log) = 1 => rq.calls = 1 /\ rq.slept = <<>>)

\* an 'error' body on the first call of a request with retries left
C29_Witness ==
    /\ rq.client = "valueserp"
    /\ rq.retries >= 1
    /\ rq.log = <<"api_error">>
    /\ rq.status = "raised"
    /\ rq.slept = <<>>

(***************************************************************************)
(* Properties of the delay and of the bookkeeping over a run (Spec)        *)
(***************************************************************************)

\* C25: while batch number b is executed, persisted and up to its own delay,
\* b - 1 inter-batch sleeps have been made; when the run is over a run of B
\* batches has slept B - 1 times, and not at all for 0 or 1 batches.
C25_DelayBetweenBatches ==
    /\ pc \in {"batch", "persist", "delay"} => sleeps = Len(batches) - 1
    /\ pc = "loop" /\ batch_i < Len(all_tasks) => sleeps = Len(batches)
    /\ RunOver \/ SliceLoopOver =>
           sleeps = IF Len(batches) = 0 THEN 0 ELSE Len(batches) - 1

\* a run of 3 batches is over and has slept twice
C25_Witness ==
    /\ pc = "done"
    /\ Len(batches) = 3
    /\ sleeps = 2

\* ids of the tasks that have a record in self.failed_items
FailedIds == {failed_items[k].task_id : k \in DOMAIN failed_items}

DistinctIds ==
    \A t, u \in DOMAIN all_tasks :
        all_tasks[t].task_id = all_tasks[u].task_id => t = u

\* C27: with pairwise distinct task ids, no id is both in processed_items and
\* in a record of failed_items; the results collected so far (self.results and
\* the list of the batch in progress) are as many as processed_items, so
\* between batches len(self.results) = |processed_items|; and both
\* collections only grow.
C27_BookkeepingConsistent ==
    /\ [](DistinctIds =>
             /\ processed_items \cap FailedIds = {}
             /\ Len(results)
                   + (IF pc \in {"batch", "persist"} THEN Len(batch_results) ELSE 0)
                 = Cardinality(processed_items))
    /\ [][ /\ processed_items \subseteq processed_items'
           /\ Len(failed_items) <= Len(failed_items')
           /\ SubSeq(failed_items', 1, Len(failed_items)) = failed_items
           /\ Len(results) <= Len(results')
           /\ SubSeq(results', 1, Len(results)) = results ]_vars

\* after two batches, one task is processed and another has a failure record
C27_Witness ==
    /\ pc = "done"
    /\ Len(batches) >= 2
    /\ Cardinality(processed_items) >= 1
    /\ Len(results) = Cardinality(processed_items)
    /\ FailedIds # {}

\* positions in all_tasks of the tasks of batches 1..b
TasksUpTo(b) == UNION {TasksOfBatch(c) : c \in 1..b}

\* C28: the record of batch b carries, as metadata, the failure records and
\* the processed and failed counts of all the batches 1..b, and as results
\* only the successes of batch b.
C28_MetadataCumulative ==
    \A k \in DOMAIN saved :
        LET b == saved[k].batch_id
            rec == saved[k]
        IN  b >= 1 =>
              /\ {f.task_id : f \in Range(rec.failed_items)}
                     = {all_tasks[t].task_id : t \in {u \in TasksUpTo(b) : Raised(u)}}
              /\ rec.total_failed = Cardinality({u \in TasksUpTo(b) : Raised(u)})
              /\ rec.total_processed
                     = Cardinality({u \in TasksUpTo(b) : Accepted(u)})
              /\ {r.task_id : r \in Range(rec.results)}
                     = {all_tasks[t].task_id : t \in {u \in TasksOfBatch(b) : Accepted(u)}}

\* the record of batch 2 holds a failure of a task of batch 1
C28_Witness ==
    \E k \in DOMAIN saved :
        /\ saved[k].batch_id = 2
        /\ \E f \in Range(saved[k].failed_items) :
               \E t \in TasksOfBatch(1) : all_tasks[t].task_id = f.task_id

(***************************************************************************)
(* Trend monitor (scripts/trend_monitor.py)                                *)
(***************************************************************************)

Abs(x) == IF x < 0 THEN -x ELSE x

\* the window of check_alert_conditions, in seconds
AlertWindow == 3600
DefaultAlertThreshold == 20
DefaultMonitoringInterval == 3600

\* TrendMonitor.calculate_trend_change: the new historical_data and the
\* percentage change, as the fraction num / den. historical_data[k] is
\* Nothing for a keyword that is not a key of the dict.
calculate_trend_change(hd, keyword, current_value) ==
    IF hd[keyword] = Nothing
    THEN [historical_data |->
              [hd EXCEPT ![keyword] = Some([baseline_value |-> current_value,
                                            last_value |-> current_value])],
          num |-> 0, den |-> 1]
    ELSE LET baseline_value == hd[keyword][1].baseline_value
         IN  IF baseline_value = 0
             THEN [historical_data |-> hd, num |-> 0, den |-> 1]
             ELSE [historical_data |->
                       [hd EXCEPT ![keyword] =
                            Some([@[1] EXCEPT !.last_value = current_value])],
                   num |-> (current_value - baseline_value) * 100,
                   den |-> baseline_value]

\* (variant: an earlier alert counts as recent only for the same location)
check_alert_conditions_per_location(history, keyword, geo, num, den, threshold, now) ==
    /\ Abs(num) >= threshold * den
    /\ ~\E k \in DOMAIN history :
           /\ history[k].keyword = keyword
           /\ history[k].location = geo
           /\ now - history[k].timestamp < AlertWindow

\* TrendMonitor.check_alert_conditions at time now, for the change num / den
\* (den > 0); geo is not looked at
check_alert_conditions(history, keyword, geo, num, den, threshold, now) ==
    /\ Abs(num) >= threshold * den
    /\ ~\E k \in DOMAIN history :
           /\ history[k].keyword = keyword
           /\ now - history[k].timestamp < AlertWindow

\* what the monitor is configured with and what upstream can report
MonKeywords == <<"ai", "ml">>
MonLocations == <<"US", "GB">>
MonValues == {0, 50, 60}
Absent == -1
\* time passes in steps of half an hour, MonMaxTicks of them at most
MonTimeSteps == {1800}
MonMaxTicks == 2
MonMaxClock == MonMaxTicks * 1800
MonConfigs ==
    [alert_threshold : {10, DefaultAlertThreshold},
     monitoring_interval : {DefaultMonitoringInterval}]

MonitorInit ==
    /\ pc = "mon_fetch"
    /\ \E mc \in MonConfigs :
          config = [keywords |-> MonKeywords, locations |-> MonLocations,
                    timeframes |-> <<>>, processing |-> DefaultProcessing,
                    validation |-> DefaultValidation, monitor |-> mc]
    /\ historical_data = [k \in Range(MonKeywords) |-> Nothing]
    /\ first_obs = [k \in Range(MonKeywords) |-> Nothing]
    /\ alert_history = <<>>
    /\ clock = 0
    /\ cycle = [geo |-> 1, todo |-> <<>>, last |-> Nothing]
    /\ all_tasks = <<>>
    /\ GenIdle /\ RetryIdle /\ RunIdle /\ EnvIdle /\ ValIdle

RECURSIVE Items(_, _)
\* latest_data.items(): the keywords that have a column, in the order of the
\* keyword list, each with its latest value
Items(data, k) ==
    IF k > Len(MonKeywords) THEN <<>>
    ELSE (IF data[k] = Absent THEN <<>> ELSE << <<MonKeywords[k], data[k]>> >>)
         \o Items(data, k + 1)

\* current_trends = self.get_current_trends(keywords, geo): {} or the latest
\* value of every keyword that has a column
GetCurrentTrends ==
    /\ pc = "mon_fetch"
    /\ \E data \in [DOMAIN MonKeywords -> MonValues \cup {Absent}] :
          cycle' = [cycle EXCEPT !.todo = Items(data, 1)]
    /\ pc' = "mon_items"
    /\ UNCHANGED <<genVars, retryVars, runVars, envVars, valVars,
                   historical_data, alert_history, clock, first_obs>>

\* one round of `for keyword, trend_data in current_trends.items()`; when
\* the alert is sent, the notifications take time d before the alert is
\* recorded with the time of the recording
ProcessItem ==
    /\ pc = "mon_items"
    /\ cycle.todo # <<>>
    /\ \E d \in {0} \cup MonTimeSteps :
       LET keyword == Head(cycle.todo)[1]
           current_value == Head(cycle.todo)[2]
           geo == MonLocations[cycle.geo]
           c == calculate_trend_change(historical_data, keyword, current_value)
           alert == check_alert_conditions(alert_history, keyword, geo, c.num,
                                           c.den, config.monitor.alert_threshold,
                                           clock)
       IN  /\ d # 0 => (alert /\ clock + d <= MonMaxClock)
           /\ clock' = clock + d
           /\ historical_data' = c.historical_data
           /\ alert_history' =
                  IF alert
                  THEN Append(alert_history,
                              [keyword |-> keyword, num |-> c.num, den |-> c.den,
                               current_value |-> current_value,
                               location |-> geo, timestamp |-> clock'])
                  ELSE alert_history
           /\ first_obs' = IF first_obs[keyword] = Nothing
                           THEN [first_obs EXCEPT ![keyword] = Some(current_value)]
                           ELSE first_obs
           /\ cycle' = [cycle EXCEPT
                           !.todo = Tail(@),
                           !.last = Some([keyword |-> keyword,
                                          first |-> first_obs[keyword] = Nothing,
                                          num |-> c.num, den |-> c.den,
                                          alerted |-> alert])]
    /\ UNCHANGED <<pc, genVars, retryVars, runVars, envVars, valVars>>

\* the items are done: save_monitoring_data, then the next location, or the
\* end of the cycle
NextLocation ==
    /\ pc = "mon_items"
    /\ cycle.todo = <<>>
    /\ IF cycle.geo < Len(MonLocations)
       THEN cycle' = [cycle EXCEPT !.geo = @ + 1] /\ pc' = "mon_fetch"
       ELSE cycle' = cycle /\ pc' = "mon_sleep"
    /\ UNCHANGED <<genVars, retryVars, runVars, envVars, valVars,
                   historical_data, alert_history, clock, first_obs>>

\* start_monitoring: time.sleep(interval), then the next cycle
SleepInterval ==
    /\ pc = "mon_sleep"
    /\ clock + config.monitor.monitoring_interval <= MonMaxClock
    /\ clock' = clock + config.monitor.monitoring_interval
    /\ cycle' = [cycle EXCEPT !.geo = 1]
    /\ pc' = "mon_fetch"
    /\ UNCHANGED <<genVars, retryVars, runVars, envVars, valVars,
                   historical_data, alert_history, first_obs>>

\* time passes while the monitor fetches, notifies or saves
Tick ==
    /\ pc \in {"mon_fetch", "mon_items"}
    /\ \E d \in MonTimeSteps :
          /\ clock + d <= MonMaxClock
          /\ clock' = clock + d
    /\ UNCHANGED <<pc, genVars, retryVars, runVars, envVars, valVars,
                   historical_data, alert_history, cycle, first_obs>>

MonitorNext == GetCurrentTrends \/ ProcessItem \/ NextLocation \/ SleepInterval \/ Tick

MonitorSpec == MonitorInit /\ [][MonitorNext]_vars

(***************************************************************************)
(* Properties of the trend monitor (MonitorSpec)                           *)
(***************************************************************************)

\* C30: every recorded alert is for a keyword whose value differs from the
\* keyword's baseline by at least alert_threshold percent; two recorded alerts
\* for one keyword, in whatever locations, are at least 3600 seconds apart;
\* the baseline of a keyword is the first value observed for it and stays so,
\* and that first observation gives change 0 and no alert.
C30_AlertRule ==
    /\ \A i, j \in DOMAIN alert_history :
           (i < j /\ alert_history[i].keyword = alert_history[j].keyword) =>
               alert_history[j].timestamp - alert_history[i].timestamp >= 3600
    /\ \A k \in DOMAIN alert_history :
           LET a == alert_history[k]
               base == first_obs[a.keyword]
           IN  /\ base # Nothing
               /\ base[1] # 0
               /\ Abs(a.current_value - base[1]) * 100
                      >= config.monitor.alert_threshold * base[1]
    /\ \A kw \in DOMAIN historical_data :
           IF first_obs[kw] = Nothing
           THEN historical_data[kw] = Nothing
           ELSE /\ historical_data[kw] # Nothing
                /\ historical_data[kw][1].baseline_value = first_obs[kw][1]
    /\ (cycle.last # Nothing /\ cycle.last[1].first) =>
           cycle.last[1].num = 0 /\ ~cycle.last[1].alerted

\* two alerts for one keyword, in two locations, an hour apart
C30_Witness ==
    \E i, j \in DOMAIN alert_history :
        /\ i < j
        /\ alert_history[i].keyword = alert_history[j].keyword
        /\ alert_history[i].location # alert_history[j].location
        /\ alert_history[j].timestamp - alert_history[i].timestamp = 3600

====
